---- MODULE Spec2Model ----
(***************************************************************************)
(* Model of TradingStrategy.backtest (StockApp/trading_strategy.py): the   *)
(* day-by-day cash/position simulator and the summary statistics derived   *)
(* from its equity curve.                                                  *)
(*                                                                         *)
(* Prices and cash are Python/numpy binary floating-point numbers.  They   *)
(* are modelled as a binary floating-point format with round-to-nearest,   *)
(* ties-to-even, of Precision significant bits (float64 has 53) and        *)
(* gradual underflow below 2^-FracBits.  A finite float x is the integer   *)
(* x * Scale; NaN is a value of its own.  Share counts and triggers are    *)
(* plain integers, as in the code.                                         *)
(***************************************************************************)
EXTENDS Integers, Sequences, FiniteSets, TLC

\* ---------------------------------------------------------------- bounds
\* Significant bits of the modelled float format.
Precision == 5
\* Longest input frame (number of rows of strategy_data).
MaxDays == 3
\* Most calls of backtest on one TradingStrategy instance.
MaxCalls == 2
\* Longest window or period passed to an indicator.
MaxPeriod == 4

\* ------------------------------------------------------- float arithmetic
FracBits == Precision + 3
Scale == 2 ^ FracBits
TwoP == 2 ^ Precision

\* numpy.nan: unordered, unequal to every number.
NaN == 0 - (2 ^ 30)

\* The float of an integer-valued quantity k (k itself is assumed exact).
F(k) == k * Scale

RECURSIVE Quantum(_, _, _)
\* Spacing of the floats around n/d (in units of 1/Scale): the least power
\* of two q with n/d < q * 2^Precision.
Quantum(n, d, q) == IF n < d * q * TwoP THEN q ELSE Quantum(n, d, 2 * q)

\* Round the non-negative rational n/d (units of 1/Scale) to the nearest
\* float, ties to the even significand.
RoundRat(n, d) ==
    LET q   == Quantum(n, d, 1)
        dq  == d * q
        m   == n \div dq
        rem == n % dq
        up  == (2 * rem > dq) \/ (2 * rem = dq /\ m % 2 = 1)
    IN  (IF up THEN m + 1 ELSE m) * q

\* The float nearest to the rational n/d, d > 0.
Float(n, d) == IF n >= 0 THEN RoundRat(n, d) ELSE 0 - RoundRat(0 - n, d)

IsNaN(a) == a = NaN

RECURSIVE MulDiv(_, _, _)
\* The float nearest to the rational a * b / d, d > 0: common factors of two
\* are cancelled before the product is formed.
MulDiv(a, b, d) ==
    IF d % 2 = 0 /\ a % 2 = 0 /\ a # 0 THEN MulDiv(a \div 2, b, d \div 2)
    ELSE IF d % 2 = 0 /\ b % 2 = 0 /\ b # 0 THEN MulDiv(a, b \div 2, d \div 2)
    ELSE Float(a * b, d)

\* a + b
FAdd(a, b) == IF IsNaN(a) \/ IsNaN(b) THEN NaN ELSE Float(a + b, 1)

\* a - b
FSub(a, b) == IF IsNaN(a) \/ IsNaN(b) THEN NaN ELSE Float(a - b, 1)

\* a / b; 0/0 is NaN (numpy division does not raise).  A non-zero numerator
\* over 0 (an infinity) does not occur for the inputs modelled.
FDiv(a, b) ==
    IF IsNaN(a) \/ IsNaN(b) \/ (a = 0 /\ b = 0) THEN NaN
    ELSE IF b > 0 THEN MulDiv(a, Scale, b) ELSE MulDiv(0 - a, Scale, 0 - b)

\* k * x for a Python int k and a float x: k is converted to a float first.
FMulInt(k, x) == IF IsNaN(x) THEN NaN ELSE MulDiv(Float(F(k), 1), x, Scale)

\* a * b
FMul(a, b) == IF IsNaN(a) \/ IsNaN(b) THEN NaN ELSE MulDiv(a, b, Scale)

RECURSIVE SqrtFloor(_, _, _)
\* The integer square root of n, searched in lo..hi (lo * lo <= n < (hi + 1)^2).
SqrtFloor(n, lo, hi) ==
    IF lo = hi THEN lo
    ELSE LET mid == (lo + hi + 1) \div 2
         IN  IF mid <= n \div mid THEN SqrtFloor(n, mid, hi) ELSE SqrtFloor(n, lo, mid - 1)

\* sqrt(a), correctly rounded; a >= 0 or NaN.
FSqrt(a) ==
    IF IsNaN(a) THEN NaN
    ELSE LET n  == a * Scale
             r  == SqrtFloor(n, 0, a + Scale)
             q  == Quantum(r, 1, 1)
             m  == r \div q
             h  == (2 * m + 1) * q
             up == (4 * n > h * h) \/ (4 * n = h * h /\ m % 2 = 1)
         IN  (IF up THEN m + 1 ELSE m) * q

\* a != b on floats (True when either is NaN).
FNe(a, b) == IsNaN(a) \/ IsNaN(b) \/ a # b

\* int(x): truncation toward zero.
Trunc(x) == IF x >= 0 THEN x \div Scale ELSE 0 - ((0 - x) \div Scale)

\* a > b on floats (False when either is NaN).
FGt(a, b) == ~IsNaN(a) /\ ~IsNaN(b) /\ a > b

\* ------------------------------------------------------------- the inputs
\* Close prices of the input series (positive, finite).
CloseSet == {F(8), F(10), F(12)}
\* Close prices of the frames that hold both a signal and a position column.
TrendCloseSet == {F(8), F(12)}
\* Values of the trigger column: sell, hold, buy, and not-a-number.
TriggerSet == {0 - 1, 0, 1, NaN}
\* Values of the 0/1 in-trend signal column of a frame that also has position.
TrendSet == {0, 1}
\* initial_cash (non-negative).
CashSet == {F(0), F(100), F(104), F(108)}

\* Close prices with a fractional part, for the frames that hold a position
\* column only.
FractionalCloseSet == {(13 * Scale) \div 4}

\* A close price that is not finite (the not-a-number case).
NonFiniteCloseSet == {NaN}

\* The column sets of the input frame, besides the date index.
SignalOnly == {"close", "signal"}
PositionOnly == {"close", "position"}
BothColumns == {"close", "signal", "position"}

\* The rows a frame with the given columns can hold.
RowSet(cols) ==
    IF cols = SignalOnly THEN [close : CloseSet, signal : TriggerSet]
    ELSE IF cols = PositionOnly
         THEN [close : CloseSet \cup FractionalCloseSet, position : TriggerSet]
    ELSE [close : TrendCloseSet, signal : TrendSet, position : TriggerSet]

\* The rows with a non-finite close such a frame can hold.
NonFiniteRowSet(cols) ==
    IF cols = SignalOnly THEN [close : NonFiniteCloseSet, signal : TriggerSet]
    ELSE IF cols = PositionOnly THEN [close : NonFiniteCloseSet, position : TriggerSet]
    ELSE [close : NonFiniteCloseSet, signal : TrendSet, position : TriggerSet]

VARIABLES
    instance,         \* the TradingStrategy object's fields position, cash, trades
    calls,            \* number of backtest calls made on the instance
    initial_cash,     \* parameter of backtest
    columns,          \* column names of the input frame strategy_data
    strategy_data,    \* rows of the input frame iterated so far; row i has date i
    cash,             \* local cash
    position,         \* local position (shares held)
    trades,           \* trade log
    portfolio_value,  \* equity curve: one {date, value} per day
    pc,               \* "loop" while iterating, "done" after the statistics,
                      \* or the name of the exception that ended the call
    stats,            \* the returned statistics
    historical_data,  \* StockDataManager.historical_data: the close column
    op,               \* the last indicator or strategy call and its arguments
    result            \* the frame that call returned: column name -> values

vars == <<instance, calls, initial_cash, columns, strategy_data, cash, position, trades, portfolio_value, pc, stats, historical_data, op, result>>

\* The variables of the indicator and strategy calls.
frames == <<historical_data, op, result>>

\* ------------------------------------------------------------ the day step
\* Variant of Trigger: signal is preferred when both columns are present.
TriggerPrefersSignal(row) ==
    IF "signal" \in DOMAIN row THEN row.signal ELSE row.position

\* Lines 93-96: the trigger column of a row.
Trigger(row) == IF "position" \in DOMAIN row THEN row.position ELSE row.signal

\* Variant of IsBuy: `not signal < 1`, which a not-a-number passes.
IsBuyUnlessBelow(signal) == ~(~IsNaN(signal) /\ signal < 1)

\* Line 98: signal == 1
IsBuy(signal) == signal = 1

\* Line 111: signal == -1
IsSell(signal) == signal = 0 - 1

\* Line 100: shares = int(cash / row['close'])
BuyShares(c, close) == Trunc(FDiv(c, close))

\* Lines 99-110: the buy branch.
Buy(s, date, row) ==
    IF FGt(s.cash, 0)
    THEN LET shares == BuyShares(s.cash, row.close)
             cost   == FMulInt(shares, row.close)
         IN  [s EXCEPT !.cash = FSub(s.cash, cost),
                       !.position = s.position + shares,
                       !.trades = Append(s.trades,
                           [date |-> date, type |-> "buy", price |-> row.close,
                            shares |-> shares, value |-> cost])]
    ELSE s

\* Variant of Sell: position is not reset after the sale.
SellKeepsPosition(s, date, row) ==
    IF s.position > 0
    THEN LET value == FMulInt(s.position, row.close)
         IN  [s EXCEPT !.cash = FAdd(s.cash, value),
                       !.trades = Append(s.trades,
                           [date |-> date, type |-> "sell", price |-> row.close,
                            shares |-> s.position, value |-> value])]
    ELSE s

\* Variant of Sell: no check that shares are held.
SellUnguarded(s, date, row) ==
    LET value == FMulInt(s.position, row.close)
    IN  [s EXCEPT !.cash = FAdd(s.cash, value),
                  !.trades = Append(s.trades,
                      [date |-> date, type |-> "sell", price |-> row.close,
                       shares |-> s.position, value |-> value]),
                  !.position = 0]

\* Variant of Sell: position is reset before the Trade is built.
SellLogsAfterReset(s, date, row) ==
    IF s.position > 0
    THEN LET value == FMulInt(s.position, row.close)
         IN  [s EXCEPT !.cash = FAdd(s.cash, value),
                       !.trades = Append(s.trades,
                           [date |-> date, type |-> "sell", price |-> row.close,
                            shares |-> 0, value |-> value]),
                       !.position = 0]
    ELSE s

\* Lines 112-122: the sell branch.
Sell(s, date, row) ==
    IF s.position > 0
    THEN LET value == FMulInt(s.position, row.close)
         IN  [s EXCEPT !.cash = FAdd(s.cash, value),
                       !.trades = Append(s.trades,
                           [date |-> date, type |-> "sell", price |-> row.close,
                            shares |-> s.position, value |-> value]),
                       !.position = 0]
    ELSE s

\* Line 127: cash + position * row['close']
Equity(c, p, close) == FAdd(c, FMulInt(p, close))

\* Lines 125-128: record the day's portfolio value.
Record(s, date, row) ==
    [s EXCEPT !.portfolio_value = Append(s.portfolio_value,
        [date |-> date, value |-> Equity(s.cash, s.position, row.close)])]

\* Line 100: int() of a not-a-number quotient raises ValueError.
Raises(s, row) ==
    /\ IsBuy(Trigger(row))
    /\ FGt(s.cash, 0)
    /\ IsNaN(FDiv(s.cash, row.close))

\* Variant of DayStep: the portfolio value is recorded on trade days only.
DayStepRecordsTradeDays(s, date, row) ==
    LET signal == Trigger(row)
        t == IF IsBuy(signal) THEN Buy(s, date, row)
             ELSE IF IsSell(signal) THEN Sell(s, date, row)
             ELSE s
    IN  IF t = s THEN s ELSE Record(t, date, row)

\* Lines 92-128: one iteration of the loop.
DayStep(s, date, row) ==
    LET signal == Trigger(row)
        t == IF IsBuy(signal) THEN Buy(s, date, row)
             ELSE IF IsSell(signal) THEN Sell(s, date, row)
             ELSE s
    IN  Record(t, date, row)

\* Lines 8-12: the fields __init__ sets (data_manager aside).
Construct == [position |-> 0, cash |-> 100000, trades |-> <<>>]

\* Variant of Start: the simulation starts from the instance's fields.
StartFromInstance(c) ==
    [cash |-> instance.cash, position |-> instance.position,
     trades |-> instance.trades, portfolio_value |-> <<>>]

\* Lines 87-90: the simulator state before the first day.
Start(c) == [cash |-> c, position |-> 0, trades |-> <<>>, portfolio_value |-> <<>>]

RECURSIVE RunFrom(_, _, _)
\* Lines 92-128: the loop over rows k..Len(frame), from state s.
RunFrom(s, frame, k) ==
    IF k > Len(frame) THEN s ELSE RunFrom(DayStep(s, k, frame[k]), frame, k + 1)

\* Lines 87-128: the whole simulation of a frame.
Run(c, frame) == RunFrom(Start(c), frame, 1)

\* Line 131-132: the value column of portfolio_df.
Values(pv) == [k \in 1..Len(pv) |-> pv[k].value]

\* Line 133: Series.pct_change(): v[k] / v[k-1] - 1, not-a-number on the
\* first row.
PctChange(v) ==
    [k \in 1..Len(v) |-> IF k = 1 THEN NaN ELSE FSub(FDiv(v[k], v[k - 1]), F(1))]

RECURSIVE SumSkipNaN(_, _)
\* Sum of the first n values of x that are numbers.
SumSkipNaN(x, n) ==
    IF n = 0 THEN 0
    ELSE IF IsNaN(x[n]) THEN SumSkipNaN(x, n - 1)
    ELSE FAdd(SumSkipNaN(x, n - 1), x[n])

\* Number of values of x that are numbers.
Count(x) == Cardinality({k \in 1..Len(x) : ~IsNaN(x[k])})

\* Series.mean(): not-a-number values are skipped; not-a-number when none
\* is left.
Mean(x) ==
    IF Count(x) = 0 THEN NaN ELSE FDiv(SumSkipNaN(x, Len(x)), F(Count(x)))

\* Series.std(): sample standard deviation (ddof = 1) of the values that
\* are numbers; not-a-number when fewer than two are left.
Std(x) ==
    IF Count(x) < 2 THEN NaN
    ELSE LET avg == Mean(x)
             sq  == [k \in 1..Len(x) |->
                        IF IsNaN(x[k]) THEN NaN
                        ELSE FMul(FSub(avg, x[k]), FSub(avg, x[k]))]
         IN  FSqrt(FDiv(SumSkipNaN(sq, Len(sq)), F(Count(x) - 1)))

\* np.sqrt(252)
Sqrt252 == FSqrt(Float(F(252), 1))

RECURSIVE RunningMax(_, _)
\* Series.cummax() at row n: the largest number among the first n values,
\* not-a-number on a row whose own value is (or when none came yet).
RunningMax(v, n) ==
    IF n = 0 THEN NaN
    ELSE LET prev == RunningMax(v, n - 1)
         IN  IF IsNaN(v[n]) THEN prev
             ELSE IF IsNaN(prev) \/ v[n] > prev THEN v[n] ELSE prev

CumMax(v, n) == IF IsNaN(v[n]) THEN NaN ELSE RunningMax(v, n)

RECURSIVE MinSkipNaN(_, _)
\* Series.min(): the least of the first n values of x that are numbers;
\* not-a-number when there is none.
MinSkipNaN(x, n) ==
    IF n = 0 THEN NaN
    ELSE LET prev == MinSkipNaN(x, n - 1)
         IN  IF IsNaN(x[n]) THEN prev
             ELSE IF IsNaN(prev) \/ x[n] < prev THEN x[n] ELSE prev

\* Line 141: the Sharpe ratio of returns with mean avg and standard
\* deviation sd; 0 when sd != 0 is false.
Sharpe(avg, sd) ==
    IF FNe(sd, 0) THEN FDiv(FMulInt(252, avg), FMul(sd, Sqrt252)) ELSE 0

\* Line 142: (value / value.cummax() - 1).min() * 100
MaxDrawdown(v) ==
    LET dd == [k \in 1..Len(v) |-> FSub(FDiv(v[k], CumMax(v, k)), F(1))]
    IN  FMulInt(100, MinSkipNaN(dd, Len(dd)))

\* Variant of Stats: the return is taken relative to the final capital.
StatsReturnOverFinal(c0, pv, tr) ==
    LET v       == Values(pv)
        final   == v[Len(v)]
        returns == PctChange(v)
        avg     == Mean(returns)
        sd      == Std(returns)
    IN  [initial_capital |-> c0,
         final_capital   |-> final,
         total_return    |-> FMulInt(100, FDiv(FSub(final, c0), final)),
         annual_return   |-> FMulInt(100, FMulInt(252, avg)),
         volatility      |-> FMulInt(100, FMul(sd, Sqrt252)),
         sharpe_ratio    |-> Sharpe(avg, sd),
         max_drawdown    |-> MaxDrawdown(v),
         trade_count     |-> Len(tr)]

\* Lines 131-144: the statistics.
Stats(c0, pv, tr) ==
    LET v       == Values(pv)
        final   == v[Len(v)]
        returns == PctChange(v)
        avg     == Mean(returns)
        sd      == Std(returns)
    IN  [initial_capital |-> c0,
         final_capital   |-> final,
         total_return    |-> FMulInt(100, FDiv(FSub(final, c0), c0)),
         annual_return   |-> FMulInt(100, FMulInt(252, avg)),
         volatility      |-> FMulInt(100, FMul(sd, Sqrt252)),
         sharpe_ratio    |-> Sharpe(avg, sd),
         max_drawdown    |-> MaxDrawdown(v),
         trade_count     |-> Len(tr)]

\* ---------------------------------------------------------------- actions
Sim == [cash |-> cash, position |-> position, trades |-> trades,
        portfolio_value |-> portfolio_value]

\* The instance is constructed and backtest is called for the first time.
InitWith(colsets) ==
    /\ instance = Construct
    /\ calls = 1
    /\ initial_cash \in CashSet
    /\ columns \in colsets
    /\ strategy_data = <<>>
    /\ cash = Start(initial_cash).cash
    /\ position = Start(initial_cash).position
    /\ trades = Start(initial_cash).trades
    /\ portfolio_value = Start(initial_cash).portfolio_value
    /\ pc = "loop"
    /\ stats = <<>>
    /\ historical_data = <<>>
    /\ op = <<>>
    /\ result = <<>>

\* One iteration of `for date, row in strategy_data.iterrows()`.
Day ==
    /\ pc = "loop"
    /\ Len(strategy_data) < MaxDays
    /\ \E r \in RowSet(columns) :
          LET s == DayStep(Sim, Len(strategy_data) + 1, r)
          IN  /\ strategy_data' = Append(strategy_data, r)
              /\ cash' = s.cash
              /\ position' = s.position
              /\ trades' = s.trades
              /\ portfolio_value' = s.portfolio_value
    /\ UNCHANGED <<instance, calls, initial_cash, columns, pc, stats>>
    /\ UNCHANGED frames

\* One iteration of the loop on a row whose close is not finite and that
\* raises nothing: lines 93-128 run as on any other row.
DayNonFinite ==
    /\ pc = "loop"
    /\ Len(strategy_data) < MaxDays
    /\ \E r \in NonFiniteRowSet(columns) :
          /\ ~Raises(Sim, r)
          /\ LET s == DayStep(Sim, Len(strategy_data) + 1, r)
             IN  /\ strategy_data' = Append(strategy_data, r)
                 /\ cash' = s.cash
                 /\ position' = s.position
                 /\ trades' = s.trades
                 /\ portfolio_value' = s.portfolio_value
    /\ UNCHANGED <<instance, calls, initial_cash, columns, pc, stats>>
    /\ UNCHANGED frames

\* One iteration of the loop that raises at line 100: the call ends with
\* ValueError and returns nothing.
DayRaises ==
    /\ pc = "loop"
    /\ Len(strategy_data) < MaxDays
    /\ \E r \in NonFiniteRowSet(columns) :
          /\ Raises(Sim, r)
          /\ strategy_data' = Append(strategy_data, r)
    /\ pc' = "ValueError"
    /\ UNCHANGED <<instance, calls, initial_cash, columns, cash, position, trades, portfolio_value, stats>>
    /\ UNCHANGED frames

\* The frame (of at least one row) is exhausted: compute the statistics and
\* return.
Finish ==
    /\ pc = "loop"
    /\ Len(strategy_data) >= 1
    /\ stats' = Stats(initial_cash, portfolio_value, trades)
    /\ pc' = "done"
    /\ UNCHANGED <<instance, calls, initial_cash, columns, strategy_data, cash, position, trades, portfolio_value>>
    /\ UNCHANGED frames

Next == Day \/ Finish

Init == InitWith({SignalOnly})

Spec == Init /\ [][Next]_vars

\* Frames with a position column only, whose closes may be fractional.
InitFractional == InitWith({PositionOnly}) /\ initial_cash = F(100)

SpecFractional == InitFractional /\ [][Next]_vars

\* initial_cash of the calls on a reused instance.
CallCashSet == {F(104)}

\* backtest has returned and is called again on the same instance, with a
\* frame of the same columns (lines 87-90).
Call ==
    /\ pc = "done"
    /\ calls < MaxCalls
    /\ calls' = calls + 1
    /\ \E c \in CallCashSet :
          /\ initial_cash' = c
          /\ cash' = Start(c).cash
          /\ position' = Start(c).position
          /\ trades' = Start(c).trades
          /\ portfolio_value' = Start(c).portfolio_value
    /\ strategy_data' = <<>>
    /\ stats' = <<>>
    /\ pc' = "loop"
    /\ UNCHANGED <<instance, columns>>
    /\ UNCHANGED frames

\* Several calls on one instance.
NextRuns == Day \/ Finish \/ Call

InitRuns == InitWith({SignalOnly}) /\ initial_cash = F(100)

SpecRuns == InitRuns /\ [][NextRuns]_vars

\* Frames whose close column may hold non-finite values.
NextPrices == Day \/ DayNonFinite \/ DayRaises \/ Finish

InitPrices == InitWith({SignalOnly}) /\ initial_cash \in {F(100), F(104)}

SpecPrices == InitPrices /\ [][NextPrices]_vars

\* ------------------------------------------- indicators and strategies
\* a < b, a <= b, a >= b on floats (False when either is NaN).
FLt(a, b) == ~IsNaN(a) /\ ~IsNaN(b) /\ a < b
FLe(a, b) == ~IsNaN(a) /\ ~IsNaN(b) /\ a <= b
FGe(a, b) == ~IsNaN(a) /\ ~IsNaN(b) /\ a >= b

\* Column names of a frame: a plain name, or a name with its period
\* (f'MA{period}', f'RSI{period}').
Col(name) == <<name>>
ColP(name, period) == <<name, period>>

\* Close prices of the historical series (positive, finite).
HistoricalCloseSet == {F(1), F(2), F(3)}

\* The close series historical_data can hold: 1..MaxDays prices.
SeriesSet == UNION {[1..n -> HistoricalCloseSet] : n \in 1..MaxDays}

\* The periods lists passed to calculate_ma: one or two window lengths.
PeriodsSet == UNION {[1..n -> 1..MaxPeriod] : n \in 1..2}

RECURSIVE WindowSum(_, _, _)
\* Sum of the p values of x ending at row k.
WindowSum(x, k, p) == IF p = 0 THEN 0 ELSE FAdd(WindowSum(x, k - 1, p - 1), x[k])

\* Variant of RollingMean: the mean of the rows seen so far while the window
\* is not filled (min_periods = 1).
RollingMeanOfSeen(x, p) ==
    [k \in 1..Len(x) |->
        IF k < p THEN FDiv(WindowSum(x, k, k), F(k))
        ELSE FDiv(WindowSum(x, k, p), F(p))]

\* Series.rolling(window=p).mean(): not-a-number on the first p - 1 rows and
\* on a window holding a not-a-number; a window of equal values yields that
\* value.
RollingMean(x, p) ==
    [k \in 1..Len(x) |->
        IF k < p THEN NaN
        ELSE IF \A j \in (k - p + 1)..k : x[j] = x[k] THEN x[k]
        ELSE FDiv(WindowSum(x, k, p), F(p))]

RECURSIVE AddMa(_, _)
\* stock_data_manager.py lines 119-120: one MA column per period, in order.
AddMa(fr, periods) ==
    IF periods = <<>> THEN fr
    ELSE AddMa((ColP("MA", Head(periods)) :> RollingMean(historical_data, Head(periods))) @@ fr,
               Tail(periods))

\* stock_data_manager.py lines 109-121.
calculate_ma(periods) == AddMa(Col("close") :> historical_data, periods)

\* The smoothing factor of ewm(span=span): 1 / (1 + (span - 1) / 2).
Alpha(span) == FDiv(F(1), FAdd(F(1), FDiv(F(span - 1), F(2))))

RECURSIVE Ewm(_, _, _)
\* Series.ewm(span=span, adjust=False).mean() at row k, for a series of
\* numbers: the first value, then (1 - alpha) * previous + alpha * current,
\* left alone when the current value equals the previous mean.
Ewm(x, span, k) ==
    IF k = 1 THEN x[1]
    ELSE LET weighted == Ewm(x, span, k - 1)
             cur      == x[k]
             new_wt   == Alpha(span)
             old_wt   == FSub(F(1), new_wt)
         IN  IF weighted = cur THEN weighted
             ELSE FDiv(FAdd(FMul(old_wt, weighted), FMul(new_wt, cur)),
                       FAdd(old_wt, new_wt))

EwmMean(x, span) == [k \in 1..Len(x) |-> Ewm(x, span, k)]

\* stock_data_manager.py lines 123-139.
calculate_macd ==
    LET EMA12 == EwmMean(historical_data, 12)
        EMA26 == EwmMean(historical_data, 26)
        DIF   == [k \in 1..Len(historical_data) |-> FSub(EMA12[k], EMA26[k])]
        DEA   == EwmMean(DIF, 9)
        MACD  == [k \in 1..Len(historical_data) |-> FMulInt(2, FSub(DIF[k], DEA[k]))]
    IN  (Col("MACD") :> MACD) @@ (Col("DEA") :> DEA) @@ (Col("DIF") :> DIF)
        @@ (Col("EMA26") :> EMA26) @@ (Col("EMA12") :> EMA12)
        @@ (Col("close") :> historical_data)

\* Series.diff(): x[k] - x[k-1], not-a-number on the first row.
Diff(x) == [k \in 1..Len(x) |-> IF k = 1 THEN NaN ELSE FSub(x[k], x[k - 1])]

\* Series.shift(1): the previous row's value, not-a-number on the first row.
Shift(x) == [k \in 1..Len(x) |-> IF k = 1 THEN NaN ELSE x[k - 1]]

\* stock_data_manager.py line 155-156: 100 - 100 / (1 + gain / loss).  With
\* loss = 0 the quotient is not-a-number for gain = 0 and infinite for
\* gain > 0, where 100 / (1 + inf) is 0.
Rsi(gain, loss) ==
    IF IsNaN(gain) \/ IsNaN(loss) \/ (gain = 0 /\ loss = 0) THEN NaN
    ELSE IF loss = 0 THEN F(100)
    ELSE FSub(F(100), FDiv(F(100), FAdd(F(1), FDiv(gain, loss))))

\* stock_data_manager.py lines 141-156.
calculate_rsi(period) ==
    LET delta == Diff(historical_data)
        ups   == [k \in 1..Len(delta) |-> IF FGt(delta[k], 0) THEN delta[k] ELSE 0]
        downs == [k \in 1..Len(delta) |-> IF FLt(delta[k], 0) THEN 0 - delta[k] ELSE 0]
        gain  == RollingMean(ups, period)
        loss  == RollingMean(downs, period)
    IN  (ColP("RSI", period) :> [k \in 1..Len(delta) |-> Rsi(gain[k], loss[k])])
        @@ (Col("close") :> historical_data)

\* trading_strategy.py lines 28-29: 1 where MA[short] > MA[long], else 0.
MaSignal(ma_short, ma_long) ==
    [k \in 1..Len(ma_short) |-> IF FGt(ma_short[k], ma_long[k]) THEN 1 ELSE 0]

\* trading_strategy.py lines 14-32.
ma_cross_strategy(short_period, long_period) ==
    LET ma_data == calculate_ma(<<short_period, long_period>>)
        signal  == MaSignal(ma_data[ColP("MA", short_period)], ma_data[ColP("MA", long_period)])
    IN  (Col("position") :> Diff(signal)) @@ (Col("signal") :> signal) @@ ma_data

\* Variant of MacdSignal: the sign of DIF - DEA, whatever the previous day.
MacdSignalOfSign(DIF, DEA) ==
    [k \in 1..Len(DIF) |->
        IF FLt(DIF[k], DEA[k]) THEN 0 - 1
        ELSE IF FGt(DIF[k], DEA[k]) THEN 1
        ELSE 0]

\* trading_strategy.py lines 44-50: 0, then 1 on an upward crossing, then
\* -1 on a downward crossing.
MacdSignal(DIF, DEA) ==
    [k \in 1..Len(DIF) |->
        IF FLt(DIF[k], DEA[k]) /\ FGe(Shift(DIF)[k], Shift(DEA)[k]) THEN 0 - 1
        ELSE IF FGt(DIF[k], DEA[k]) /\ FLe(Shift(DIF)[k], Shift(DEA)[k]) THEN 1
        ELSE 0]

\* trading_strategy.py lines 34-52.
macd_strategy ==
    LET macd_data == calculate_macd
    IN  (Col("signal") :> MacdSignal(macd_data[Col("DIF")], macd_data[Col("DEA")]))
        @@ macd_data

\* The simulator's variables, idle during the indicator calls.
simulator == <<instance, calls, initial_cash, columns, strategy_data, cash, position, trades, portfolio_value, stats>>

\* A StockDataManager holding a close series, and a TradingStrategy on it.
InitIndicators ==
    /\ instance = Construct
    /\ calls = 0
    /\ initial_cash = 0
    /\ columns = {}
    /\ strategy_data = <<>>
    /\ cash = 0
    /\ position = 0
    /\ trades = <<>>
    /\ portfolio_value = <<>>
    /\ stats = <<>>
    /\ pc = "data"
    /\ historical_data \in SeriesSet
    /\ op = [name |-> "none"]
    /\ result = <<>>

\* A call of StockDataManager.calculate_ma(periods).
CalculateMa ==
    /\ pc = "data"
    /\ \E periods \in PeriodsSet :
          /\ op' = [name |-> "calculate_ma", periods |-> periods]
          /\ result' = calculate_ma(periods)
    /\ pc' = "returned"
    /\ UNCHANGED <<historical_data, simulator>>

\* A call of StockDataManager.calculate_macd().
CalculateMacd ==
    /\ pc = "data"
    /\ op' = [name |-> "calculate_macd"]
    /\ result' = calculate_macd
    /\ pc' = "returned"
    /\ UNCHANGED <<historical_data, simulator>>

\* A call of StockDataManager.calculate_rsi(period).
CalculateRsi ==
    /\ pc = "data"
    /\ \E period \in 1..MaxPeriod :
          /\ op' = [name |-> "calculate_rsi", period |-> period]
          /\ result' = calculate_rsi(period)
    /\ pc' = "returned"
    /\ UNCHANGED <<historical_data, simulator>>

\* A call of TradingStrategy.ma_cross_strategy(short_period, long_period).
MaCrossStrategy ==
    /\ pc = "data"
    /\ \E short_period \in 1..MaxPeriod, long_period \in 1..MaxPeriod :
          /\ op' = [name |-> "ma_cross_strategy", short_period |-> short_period,
                    long_period |-> long_period]
          /\ result' = ma_cross_strategy(short_period, long_period)
    /\ pc' = "returned"
    /\ UNCHANGED <<historical_data, simulator>>

\* A call of TradingStrategy.macd_strategy().
MacdStrategy ==
    /\ pc = "data"
    /\ op' = [name |-> "macd_strategy"]
    /\ result' = macd_strategy
    /\ pc' = "returned"
    /\ UNCHANGED <<historical_data, simulator>>

NextIndicators ==
    CalculateMa \/ CalculateMacd \/ CalculateRsi \/ MaCrossStrategy \/ MacdStrategy

SpecIndicators == InitIndicators /\ [][NextIndicators]_vars

\* ----------------------------------------------------------- the claims
\* The step that processes one more row of the frame.
IsDayStep == Len(strategy_data') = Len(strategy_data) + 1
\* The row processed by that step, and its trigger.
NewRow == strategy_data'[Len(strategy_data')]
NewTrigger == IF "position" \in columns THEN NewRow.position ELSE NewRow.signal

RECURSIVE SumShares(_, _, _)
\* Sum of the shares of the trades of the given type among the first n trades.
SumShares(tr, type, n) ==
    IF n = 0 THEN 0
    ELSE SumShares(tr, type, n - 1) + (IF tr[n].type = type THEN tr[n].shares ELSE 0)

\* C1: cash is >= 0 after every simulated day, for positive closes, any
\* trigger sequence and any non-negative initial_cash.
CashNeverNegative == cash >= 0

\* C2: a +1 trigger on a day where the simulator is already long or cash
\* is 0 appends no Trade and leaves cash and position unchanged.
NoReentryWhileLong ==
    [][(IsDayStep /\ NewTrigger = 1 /\ (position > 0 \/ cash = 0))
         => (trades' = trades /\ cash' = cash /\ position' = position)]_vars

\* C3: after every simulated day, position equals the shares bought minus
\* the shares sold over the trades logged so far, and is >= 0.
PositionIsNetShares ==
    /\ position = SumShares(trades, "buy", Len(trades)) - SumShares(trades, "sell", Len(trades))
    /\ position >= 0

\* C3 witness: a buy, a sell and a later buy are logged and shares are held.
BoughtSoldBought ==
    /\ Len(trades) >= 3
    /\ trades[1].type = "buy" /\ trades[2].type = "sell" /\ trades[3].type = "buy"
    /\ position > 0

\* Every sell in the log directly follows a buy, and closes a positive
\* number of shares still open at that point.
SellsCloseOpenBuys ==
    \A k \in 1..Len(trades) :
        trades[k].type = "sell" =>
            /\ k > 1
            /\ trades[k - 1].type = "buy"
            /\ SumShares(trades, "buy", k - 1) - SumShares(trades, "sell", k - 1) > 0

\* C4: every sell Trade is preceded by a buy Trade not yet closed by an
\* earlier sell; a -1 trigger while flat appends no Trade and leaves cash
\* and position unchanged.
NeverSellsFromFlat ==
    /\ []SellsCloseOpenBuys
    /\ [][(IsDayStep /\ NewTrigger = 0 - 1 /\ position = 0)
            => (trades' = trades /\ cash' = cash /\ position' = position)]_vars

\* C4 witness: a round trip is logged and a later -1 trigger arrived while
\* flat.
SellTriggerWhileFlat ==
    /\ Len(strategy_data) = 3
    /\ Trigger(strategy_data[3]) = 0 - 1
    /\ Len(trades) = 2
    /\ trades[2].type = "sell" /\ trades[2].date = 2

\* C5: on a +1 trigger day with cash > 0 the simulator buys floor(cash /
\* close) shares, the most it can afford, so that the cash left is below
\* that day's close; cash falls by shares x close, position rises by shares,
\* and exactly one buy Trade with these shares and this value is appended.
BuysMaxAffordable ==
    [][(IsDayStep /\ NewTrigger = 1 /\ cash > 0)
         => LET shares == cash \div NewRow.close
                cost   == FMulInt(shares, NewRow.close)
            IN  /\ cash' = FSub(cash, cost)
                /\ cash' < NewRow.close
                /\ position' = position + shares
                /\ trades' = Append(trades,
                      [date |-> Len(strategy_data'), type |-> "buy",
                       price |-> NewRow.close, shares |-> shares, value |-> cost])]_vars

\* C6: on a -1 trigger day with position > 0 the whole position is sold at
\* that day's close: cash rises by position x close, exactly one sell Trade
\* with the whole pre-sale position is appended, and position becomes 0.
SellsWholePosition ==
    [][(IsDayStep /\ NewTrigger = 0 - 1 /\ position > 0)
         => LET value == FMulInt(position, NewRow.close)
            IN  /\ cash' = FAdd(cash, value)
                /\ position' = 0
                /\ trades' = Append(trades,
                      [date |-> Len(strategy_data'), type |-> "sell",
                       price |-> NewRow.close, shares |-> position, value |-> value])]_vars

\* C6 witness: today's -1 trigger sold a held position; the simulator is flat.
JustSoldAll ==
    /\ Len(trades) >= 2
    /\ trades[Len(trades)].type = "sell"
    /\ trades[Len(trades)].date = Len(strategy_data)
    /\ trades[Len(trades)].shares > 0
    /\ position = 0

\* C7: exactly one equity-curve entry per input day, in date order, trade
\* or not, and each entry is cash + position x close of that day, taken
\* after the day's trade.
EquityEveryDay ==
    /\ [](/\ Len(portfolio_value) = Len(strategy_data)
          /\ \A k \in 1..Len(portfolio_value) : portfolio_value[k].date = k)
    /\ [][IsDayStep
            => portfolio_value' = Append(portfolio_value,
                  [date |-> Len(strategy_data'),
                   value |-> FAdd(cash', FMulInt(position', NewRow.close))])]_vars

\* C7 witness: three days, one of them with a trade that left shares held,
\* the others without a trade, and three equity entries.
ThreeDaysOneTrade ==
    /\ Len(strategy_data) = 3
    /\ Len(portfolio_value) = 3
    /\ Len(trades) = 1
    /\ trades[1].date = 2
    /\ position > 0

\* The example series of C8.
ExCloses == <<F(10), F(12), F(8)>>
ExTriggers == <<1, 0, 0 - 1>>
\* The input so far is the first Len(strategy_data) days of the example.
OnExample ==
    /\ initial_cash = F(100)
    /\ Len(strategy_data) <= 3
    /\ \A k \in 1..Len(strategy_data) :
          /\ strategy_data[k].close = ExCloses[k]
          /\ Trigger(strategy_data[k]) = ExTriggers[k]

\* C8: closes [10, 12, 8], triggers [+1, 0, -1], initial cash 100: day 1
\* buys 10 shares at 10 (cash 0, position 10, equity 100); day 2 no trade,
\* equity 120; day 3 sells 10 shares at 8 (cash 80, position 0, equity 80);
\* total_return = -20 and trade_count = 2.
ExampleRun ==
    OnExample =>
        /\ Len(strategy_data) = 1 =>
              /\ cash = F(0) /\ position = 10
              /\ trades = <<[date |-> 1, type |-> "buy", price |-> F(10),
                             shares |-> 10, value |-> F(100)]>>
              /\ portfolio_value[1].value = F(100)
        /\ Len(strategy_data) = 2 =>
              /\ cash = F(0) /\ position = 10
              /\ Len(trades) = 1
              /\ portfolio_value[2].value = F(120)
        /\ Len(strategy_data) = 3 =>
              /\ cash = F(80) /\ position = 0
              /\ Len(trades) = 2
              /\ trades[2] = [date |-> 3, type |-> "sell", price |-> F(8),
                              shares |-> 10, value |-> F(80)]
              /\ portfolio_value[3].value = F(80)
              /\ pc = "done" =>
                    /\ stats.total_return = F(0 - 20)
                    /\ stats.trade_count = 2
                    /\ stats.final_capital = F(80)

\* C8 witness: the example has run to its statistics.
ExampleDone == OnExample /\ Len(strategy_data) = 3 /\ pc = "done"

\* A row with a not-a-number trigger replaced by 0.
ZeroNaN(row) ==
    [c \in DOMAIN row |-> IF c # "close" /\ IsNaN(row[c]) THEN 0 ELSE row[c]]

\* The frame with every not-a-number trigger replaced by 0.
ZeroNaNFrame == [k \in 1..Len(strategy_data) |-> ZeroNaN(strategy_data[k])]

\* C9: a not-a-number trigger is treated exactly like 0: replacing every
\* such trigger by 0 yields the same trade log and equity curve, and a
\* not-a-number trigger day appends no Trade and leaves cash and position.
NaNTriggerIsHold ==
    /\ [](LET alt == Run(initial_cash, ZeroNaNFrame)
          IN  alt.trades = trades /\ alt.portfolio_value = portfolio_value)
    /\ [][(IsDayStep /\ IsNaN(NewTrigger))
            => (trades' = trades /\ cash' = cash /\ position' = position)]_vars

\* C9 witness: a not-a-number trigger arrived while shares were held and
\* cash was left, between a buy and a sell.
NaNDayWhileLong ==
    /\ Len(strategy_data) = 3
    /\ IsNaN(Trigger(strategy_data[2]))
    /\ Len(trades) = 2
    /\ trades[1].date = 1 /\ trades[2].date = 3
    /\ trades[1].shares > 0
    /\ cash > F(100)

\* The frame with its signal column set to 0 on every row.
SignalZeroFrame ==
    [k \in 1..Len(strategy_data) |-> [strategy_data[k] EXCEPT !.signal = 0]]

\* The frame with its signal column renamed to position.
SignalAsPositionFrame ==
    [k \in 1..Len(strategy_data) |->
        [close |-> strategy_data[k].close, position |-> strategy_data[k].signal]]

\* C10: with both a position and a signal column the trigger is position
\* on every day (the signal values do not influence the trade log or the
\* equity curve); signal is the trigger only without a position column.
PositionColumnWins ==
    /\ columns = BothColumns =>
          LET alt == Run(initial_cash, SignalZeroFrame)
          IN  alt.trades = trades /\ alt.portfolio_value = portfolio_value
    /\ columns = SignalOnly =>
          LET alt == Run(initial_cash, SignalAsPositionFrame)
          IN  alt.trades = trades /\ alt.portfolio_value = portfolio_value

\* C10 witness: position and signal disagree on every day of a frame with
\* both columns, and the trades follow position.
ColumnsDisagree ==
    /\ columns = BothColumns
    /\ Len(strategy_data) = 3
    /\ strategy_data[1].position = 1 /\ strategy_data[1].signal = 0
    /\ strategy_data[2].position = 0 /\ strategy_data[2].signal = 1
    /\ strategy_data[3].position = 0 - 1 /\ strategy_data[3].signal = 1
    /\ Len(trades) = 2
    /\ trades[1].type = "buy" /\ trades[2].type = "sell"

\* Frames as the strategies produce them: with a signal column only (MACD,
\* RSI) or with both signal and position (MA-cross).
InitColumns == InitWith({SignalOnly, BothColumns}) /\ initial_cash = F(104)

SpecColumns == InitColumns /\ [][Next]_vars

\* C11: a non-finite close on a +1 or -1 trigger day makes backtest fail
\* with InvalidPriceError; the day's signal is skipped: cash and position
\* never become non-finite and no Trade with a non-finite price or value
\* is appended.
InvalidPriceIsRejected ==
    /\ [](/\ ~IsNaN(cash)
          /\ \A k \in 1..Len(trades) :
                ~IsNaN(trades[k].price) /\ ~IsNaN(trades[k].value))
    /\ [][(IsDayStep /\ IsNaN(NewRow.close) /\ NewTrigger \in {1, 0 - 1})
            => /\ pc' = "InvalidPriceError"
               /\ cash' = cash /\ position' = position /\ trades' = trades]_vars

\* C12: backtest keeps no state across runs: the instance fields position,
\* cash and trades are neither read nor written, so in every call the
\* trade log and the equity curve are those a fresh simulation of
\* (frame, initial_cash) gives, whatever ran before.
BacktestIsStateless ==
    /\ instance = [position |-> 0, cash |-> 100000, trades |-> <<>>]
    /\ LET fresh == RunFrom([cash |-> initial_cash, position |-> 0, trades |-> <<>>,
                             portfolio_value |-> <<>>], strategy_data, 1)
       IN  /\ fresh.trades = trades
           /\ fresh.portfolio_value = portfolio_value
           /\ fresh.cash = cash
           /\ fresh.position = position

\* C12 witness: a second call on the instance has returned with a round
\* trip in its trade log.
SecondCallReturned ==
    /\ calls = 2
    /\ pc = "done"
    /\ Len(trades) = 2

\* The rows of the frame the last call returned.
Rows == 1..Len(historical_data)

\* C13: macd_strategy sets signal = +1 on exactly the days where DIF > DEA
\* today and DIF <= DEA on the previous day, -1 on exactly the days where
\* DIF < DEA today and DIF >= DEA on the previous day, 0 on all other days;
\* the first row always has signal 0.
MacdSignalMarksCrossings ==
    op.name = "macd_strategy" =>
        LET DIF    == result[Col("DIF")]
            DEA    == result[Col("DEA")]
            signal == result[Col("signal")]
            up(k)   == k > 1 /\ FGt(DIF[k], DEA[k]) /\ FLe(DIF[k - 1], DEA[k - 1])
            down(k) == k > 1 /\ FLt(DIF[k], DEA[k]) /\ FGe(DIF[k - 1], DEA[k - 1])
        IN  /\ pc = "returned"
            /\ signal[1] = 0
            /\ \A k \in Rows :
                  /\ signal[k] = 1 <=> up(k)
                  /\ signal[k] = 0 - 1 <=> down(k)
                  /\ signal[k] = 0 <=> (~up(k) /\ ~down(k))

\* Witness of C13: macd_strategy returned a frame with an upward and a
\* downward crossing.
MacdCrossedBothWays ==
    /\ op.name = "macd_strategy"
    /\ pc = "returned"
    /\ \E i, j \in Rows : result[Col("signal")][i] = 1 /\ result[Col("signal")][j] = 0 - 1

\* C14: in ma_cross_strategy (called with short_period < long_period) every
\* row where MA[short] or MA[long] is undefined gets an undefined signal
\* rather than 0, and the position of the first row where both MAs are
\* defined is undefined, never +1.
WarmupSignalUndefined ==
    (op.name = "ma_cross_strategy" /\ op.short_period < op.long_period) =>
        LET ma_short == result[ColP("MA", op.short_period)]
            ma_long  == result[ColP("MA", op.long_period)]
            defined(k) == ~IsNaN(ma_short[k]) /\ ~IsNaN(ma_long[k])
        IN  \A k \in Rows :
               /\ ~defined(k) => IsNaN(result[Col("signal")][k])
               /\ (defined(k) /\ \A j \in 1..(k - 1) : ~defined(j))
                     => IsNaN(result[Col("position")][k])

\* C15: a call of ma_cross_strategy with short_period >= long_period fails
\* with InvalidParameterError and returns no frame.
ShortMustBeBelowLong ==
    (op.name = "ma_cross_strategy" /\ op.short_period >= op.long_period)
        => pc = "InvalidParameterError"

\* The MA columns of the frame calculate_ma returned.
MaPeriods == {op.periods[i] : i \in 1..Len(op.periods)}

\* C16 as stated: for every window p >= the number of rows, every value of
\* the MA column is not-a-number, p equal to the series length included.
MaAllNaNFromSeriesLength ==
    op.name = "calculate_ma" =>
        \A p \in MaPeriods :
            p >= Len(historical_data)
                => \A k \in Rows : IsNaN(result[ColP("MA", p)][k])

\* C16, amended: for every window p greater than the number of rows the MA
\* column is all not-a-number; for p equal to the number of rows its last
\* value is the mean of the whole series and the rows before it are
\* not-a-number.
MaAllNaNBeyondSeriesLength ==
    op.name = "calculate_ma" =>
        \A p \in MaPeriods :
            LET n  == Len(historical_data)
                MA == result[ColP("MA", p)]
            IN  /\ p > n => \A k \in Rows : IsNaN(MA[k])
                /\ p = n => /\ \A k \in 1..(n - 1) : IsNaN(MA[k])
                            /\ MA[n] = FDiv(WindowSum(historical_data, n, n), F(n))

\* Witness of C16: calculate_ma returned, for a series of two rows, the MA
\* of window 2 (the series length) and of window 3.
WindowsFromSeriesLength ==
    /\ op.name = "calculate_ma"
    /\ Len(historical_data) = 2
    /\ op.periods = <<2, 3>>
    /\ pc = "returned"

\* The close series is constant.
ConstantSeries == \A k \in Rows : historical_data[k] = historical_data[1]

\* C17: for every constant-price series each MA equals the constant once
\* its window is filled, EMA12 and EMA26 equal the constant, DIF, DEA and
\* MACD are 0 on every row, and RSI is 50 on every row after warm-up.
ConstantSeriesIndicators ==
    ConstantSeries =>
        LET c == historical_data[1]
        IN  /\ op.name = "calculate_ma" =>
                  \A p \in MaPeriods : \A k \in Rows :
                      k >= p => result[ColP("MA", p)][k] = c
            /\ op.name = "calculate_macd" =>
                  \A k \in Rows :
                      /\ result[Col("EMA12")][k] = c /\ result[Col("EMA26")][k] = c
                      /\ result[Col("DIF")][k] = 0 /\ result[Col("DEA")][k] = 0
                      /\ result[Col("MACD")][k] = 0
            /\ op.name = "calculate_rsi" =>
                  \A k \in Rows :
                      k > op.period => result[ColP("RSI", op.period)][k] = F(50)

\* The equity curve is flat: all recorded values are equal.
FlatCurve ==
    \A k \in 1..Len(portfolio_value) :
        portfolio_value[k].value = portfolio_value[1].value

\* C18: for every flat equity curve of length >= 1 backtest reports
\* sharpe_ratio = 0, never a not-a-number (and never raises).
FlatCurveSharpeZero ==
    (pc = "done" /\ FlatCurve) => (~IsNaN(stats.sharpe_ratio) /\ stats.sharpe_ratio = 0)

\* The largest of the first n equity values.
PeakEquity(n) ==
    CHOOSE x \in {portfolio_value[k].value : k \in 1..n} :
        \A k \in 1..n : portfolio_value[k].value <= x

\* The drawdown of day t in percent: (equity[t] / max(equity[1..t]) - 1) x 100.
DrawdownAt(t) ==
    FMulInt(100, FSub(FDiv(portfolio_value[t].value, PeakEquity(t)), F(1)))

\* C19: max_drawdown is the minimum over the days t of
\* (equity[t] / max(equity[0..t]) - 1) x 100 and is <= 0, for every equity
\* curve produced from a non-negative initial cash.
DrawdownIsWorstDrop ==
    pc = "done" =>
        /\ ~IsNaN(stats.max_drawdown)
        /\ stats.max_drawdown <= 0
        /\ \E t \in 1..Len(portfolio_value) : stats.max_drawdown = DrawdownAt(t)
        /\ \A t \in 1..Len(portfolio_value) : stats.max_drawdown <= DrawdownAt(t)

\* C20: a trade does not change the day's equity: the value recorded on a
\* day is cash + position x close of that day with the cash and position
\* carried into the day, and it stays equal to cash over consecutive flat
\* days.
TradeKeepsEquity ==
    [][IsDayStep
         => LET e == portfolio_value'[Len(portfolio_value')].value
            IN  /\ e = FAdd(cash, FMulInt(position, NewRow.close))
                /\ (position = 0 /\ position' = 0) => e = cash]_vars

====
